---- MODULE Spec2Model ----
(***************************************************************************)
(* Model of the budgeting data layer: the hook useBudgetData of            *)
(* src/hooks/useBudgetData.ts, the profile-scoped hook useBudgetData of    *)
(* src/lib/database.types.ts, and the backend tables both write.           *)
(*                                                                         *)
(* The backend is the tables transactions, transaction_history,            *)
(* budget_configs and investment_portfolios; a hook keeps the budget        *)
(* config, the portfolios and the transactions it fetched in memory (React *)
(* state) next to them.  Every handler is one action, and every backend    *)
(* call of a handler may fail: a BOOLEAN drawn per call.  The tables have   *)
(* the keys the code names: the primary key id, the foreign keys of        *)
(* Relationships, and the conflict target of the profile-scoped upsert.    *)
(*                                                                         *)
(* Abstractions: dates, times, descriptions and the free text of notes are *)
(* left out (the note a reduction appends is kept as the reduction         *)
(* amount); monthly_salary stands for the values of a budget config and    *)
(* allocation_value for those of a portfolio; created_at order is the      *)
(* order of ids; no month/year is                                          *)
(* selected in the first hook, and all rows lie in the profile and period  *)
(* of the second.  The browser-local fallback of fetchBudgetData and the   *)
(* hard delete (softDelete = false) are not modelled.  A behaviour is at   *)
(* most MaxOps handler calls long.                                         *)
(*                                                                         *)
(* A handler is async: its backend calls are awaited one by one.  Spec and *)
(* SpecProfile run every handler to its end in one step; SpecReduce runs   *)
(* reduceInvestmentAmount, and SpecSession fetchBudgetData, one backend    *)
(* call per step, so that calls in flight interleave.  The calls in flight *)
(* of reduceInvestmentAmount write to one in-memory list, as two calls of  *)
(* one hook do; what two sessions store in the backend is the same.        *)
(***************************************************************************)
EXTENDS Integers, Sequences, FiniteSets, TLC

\* ---------------------------------------------------------------- bounds
MaxTx == 3       \* rows the transactions table can hold
MaxAmount == 2   \* largest amount a caller passes
MaxOps == 3      \* handler calls in a behaviour
MaxCalls == 2    \* calls of reduceInvestmentAmount in flight at once

\* ------------------------------------------------------------- constants
NoId == 0
NoUser == "none"
NoError == "null"
Users == {"u1", "u2"}
Ids == 1..MaxTx
Amounts == 1..MaxAmount

\* Inputs of updateTransaction: values of the Update type that set the
\* amount or the owner.
TransactionUpdates ==
  {[amount |-> a] : a \in Amounts} \cup {[user_id |-> u] : u \in Users}

\* Inputs of addTransaction: the fields of the Insert type that the
\* handlers of the ledger read.
AddInputs ==
  { [type |-> "expense", category |-> "need", payment_type |-> "cash"],
    [type |-> "investment", category |-> "investments", payment_type |-> "upi"] }

VARIABLES
  user,                    \* useAuth().user: the signed-in user, or NoUser
  db_transactions,         \* backend table transactions: id -> row
  db_transaction_history,  \* backend table transaction_history, in insert order
  nextId,                  \* the id the backend gives the next inserted row
  transactions,            \* React state: the in-memory list of transactions
  result,                  \* what the last handler returned
  ops,                     \* handler calls so far
  db_budget_configs,       \* backend table budget_configs, in insert order
  db_investment_portfolios,\* backend table investment_portfolios, in insert order
  budgetConfig,            \* React state: the budget config, or NullConfig
  portfolios,              \* React state: the in-memory list of portfolios
  fetching,                \* the user of the fetchBudgetData in flight, or NoUser
  reducing                 \* the calls of reduceInvestmentAmount in flight

vars == <<user, db_transactions, db_transaction_history, nextId,
          transactions, result, ops, db_budget_configs,
          db_investment_portfolios, budgetConfig, portfolios, fetching,
          reducing>>

\* The calls in flight.
inflight == <<fetching, reducing>>

\* The budget config and the portfolios, in the backend and in memory.
settings == <<db_budget_configs, db_investment_portfolios, budgetConfig,
              portfolios>>

\* ------------------------------------------------------------------ rows
\* A row of the transactions table with the column defaults of the backend.
NewRow(id, u, type, category, amount, payment_type, refund_for) ==
  [ id |-> id, user_id |-> u, type |-> type, category |-> category,
    amount |-> amount, notes |-> <<>>, payment_type |-> payment_type,
    refund_for |-> refund_for, original_transaction_id |-> NoId,
    status |-> "active", is_deleted |-> FALSE, deleted_at |-> "null" ]

NullRow == NewRow(NoId, NoUser, "null", "null", 0, "null", NoId)

\* What a handler returns, { data, error } (data is NullRow for null; a
\* thrown error is an error), which handler it was, and whether a backend
\* write it issued failed.
Result(op, error, data, writeFailed) ==
  [op |-> op, error |-> error, data |-> data, writeFailed |-> writeFailed]

\* A row of the budget_configs table.
ConfigRow(id, u, monthly_salary) ==
  [id |-> id, user_id |-> u, monthly_salary |-> monthly_salary]

NullConfig == ConfigRow(NoId, NoUser, 0)

\* A row of the investment_portfolios table with the column defaults of the
\* backend.
PortfolioRow(id, u, allocation_value) ==
  [ id |-> id, user_id |-> u, allocation_value |-> allocation_value,
    is_active |-> TRUE ]

\* .update(updates): the columns updates names take its values.
Updated(row, updates) ==
  [f \in DOMAIN row |-> IF f \in DOMAIN updates THEN updates[f] ELSE row[f]]

\* .from("transactions").select("*").eq("id", id).eq("user_id", u).single()
SelectSingle(id, u) ==
  IF id \in DOMAIN db_transactions /\ db_transactions[id].user_id = u
  THEN db_transactions[id]
  ELSE NullRow

RECURSIVE DescSeq(_)
\* The ids of S as a sequence, newest (largest) first.
DescSeq(S) ==
  IF S = {} THEN <<>>
  ELSE LET m == CHOOSE x \in S : \A y \in S : y <= x
       IN <<m>> \o DescSeq(S \ {m})

\* The transaction query of fetchBudgetData: the rows of user u, newest first.
FetchTransactions(u) ==
  LET ids == DescSeq({i \in DOMAIN db_transactions :
                        db_transactions[i].user_id = u})
  IN [k \in 1..Len(ids) |-> db_transactions[ids[k]]]

\* The budget config query of fetchBudgetData, .eq("user_id", u).single():
\* no row and several rows are PGRST116, which leaves data null.
SelectConfig(u) ==
  LET ks == {k \in 1..Len(db_budget_configs) :
               db_budget_configs[k].user_id = u}
  IN IF Cardinality(ks) = 1
     THEN db_budget_configs[CHOOSE k \in ks : TRUE]
     ELSE NullConfig

\* The portfolio query of fetchBudgetData: the rows of user u, oldest first.
FetchPortfolios(u) ==
  SelectSeq(db_investment_portfolios, LAMBDA p : p.user_id = u)

\* .from("investment_portfolios")....eq("id", id).eq("user_id", u).single()
SelectPortfolio(id, u) ==
  IF id \in 1..Len(db_investment_portfolios)
       /\ db_investment_portfolios[id].user_id = u
  THEN db_investment_portfolios[id]
  ELSE PortfolioRow(NoId, NoUser, 0)

\* prev.map((t) => (t.id === id ? data : t))
ReplaceRow(s, id, data) ==
  [k \in 1..Len(s) |-> IF s[k].id = id THEN data ELSE s[k]]

\* prev.map((t) => (t.id === id ? { ...t, status } : t))
SetStatus(s, id, status) ==
  [k \in 1..Len(s) |->
     IF s[k].id = id THEN [s[k] EXCEPT !.status = status] ELSE s[k]]

\* prev.filter((t) => t.id !== id)
FilterOut(s, id) == SelectSeq(s, LAMBDA t : t.id # id)

\* One more handler call starts.
Begin == ops < MaxOps /\ ops' = ops + 1

\* One more handler call, run to its end: the calls in flight stay where they
\* are.
Call == Begin /\ UNCHANGED inflight

\* The slots of the calls of reduceInvestmentAmount in flight.
Sessions == 1..MaxCalls

\* A call of reduceInvestmentAmount: where it is, its arguments, the row it
\* read, the row its update returned and the error it returned.
ReduceCall(pc, transactionId, reductionAmount, originalTransaction, data, error) ==
  [ pc |-> pc, transactionId |-> transactionId,
    reductionAmount |-> reductionAmount,
    originalTransaction |-> originalTransaction, data |-> data,
    error |-> error ]

NoCall == ReduceCall("idle", NoId, 0, NullRow, NullRow, NoError)

\* The hook is mounted with the user useAuth gives and empty state, over an
\* empty backend.
Init ==
  /\ user \in Users \cup {NoUser}
  /\ db_transactions = <<>>
  /\ db_transaction_history = <<>>
  /\ nextId = 1
  /\ transactions = <<>>
  /\ result = Result("init", NoError, NullRow, FALSE)
  /\ ops = 0
  /\ db_budget_configs = <<>>
  /\ db_investment_portfolios = <<>>
  /\ budgetConfig = NullConfig
  /\ portfolios = <<>>
  /\ fetching = NoUser
  /\ reducing = [c \in Sessions |-> NoCall]

\* --------------------------------------------------------------- session
\* The three queries of fetchBudgetData for user u: each sets its part of
\* the state unless it fails.
Fetched(u) ==
  /\ \E fetchOk \in BOOLEAN :
       transactions' = IF fetchOk THEN FetchTransactions(u) ELSE transactions
  /\ \E configOk \in BOOLEAN :
       budgetConfig' = IF configOk THEN SelectConfig(u) ELSE budgetConfig
  /\ \E portfolioOk \in BOOLEAN :
       portfolios' = IF portfolioOk THEN FetchPortfolios(u) ELSE portfolios

\* useEffect on [user], user set: fetchBudgetData.
SignIn(u) ==
  /\ Call
  /\ user = NoUser
  /\ user' = u
  /\ Fetched(u)
  /\ result' = Result("signIn", NoError, NullRow, FALSE)
  /\ UNCHANGED <<db_transactions, db_transaction_history, nextId,
                 db_budget_configs, db_investment_portfolios>>

\* A sign-out that clears the stored history with the in-memory state.
SignOutClearingHistory ==
  /\ Call
  /\ user # NoUser
  /\ user' = NoUser
  /\ budgetConfig' = NullConfig
  /\ portfolios' = <<>>
  /\ transactions' = <<>>
  /\ db_transaction_history' = <<>>
  /\ result' = Result("signOut", NoError, NullRow, FALSE)
  /\ UNCHANGED <<db_transactions, nextId, db_budget_configs,
                 db_investment_portfolios>>

\* useEffect on [user], user null: the in-memory state is cleared.
SignOut ==
  /\ Call
  /\ user # NoUser
  /\ user' = NoUser
  /\ budgetConfig' = NullConfig
  /\ portfolios' = <<>>
  /\ transactions' = <<>>
  /\ result' = Result("signOut", NoError, NullRow, FALSE)
  /\ UNCHANGED <<db_transactions, db_transaction_history, nextId,
                 db_budget_configs, db_investment_portfolios>>

\* refetch: fetchBudgetData
FetchBudgetData ==
  /\ Call
  /\ user # NoUser
  /\ Fetched(user)
  /\ result' = Result("fetch", NoError, NullRow, FALSE)
  /\ UNCHANGED <<user, db_transactions, db_transaction_history, nextId,
                 db_budget_configs, db_investment_portfolios>>

\* Every handler starts with: if (!user) return { error: "User not authenticated" }
NotAuthenticated(op) ==
  /\ user = NoUser
  /\ result' = Result(op, "User not authenticated", NullRow, FALSE)
  /\ UNCHANGED <<user, db_transactions, db_transaction_history, nextId,
                 transactions>>
  /\ UNCHANGED settings

\* A handler that fails with error e and empties the in-memory list.
FailsClearingList(op, e, writeFailed) ==
  /\ result' = Result(op, e, NullRow, writeFailed)
  /\ transactions' = <<>>
  /\ UNCHANGED <<user, db_transactions, db_transaction_history, nextId>>
  /\ UNCHANGED settings

\* A handler that fails with error e, of a read or of a write, and has
\* written nothing.
Fails(op, e, writeFailed) ==
  /\ result' = Result(op, e, NullRow, writeFailed)
  /\ UNCHANGED <<user, db_transactions, db_transaction_history, nextId,
                 transactions>>
  /\ UNCHANGED settings

\* ------------------------------------------------------------ operations
AddTransaction(input, amount) ==
  /\ Call
  /\ \/ NotAuthenticated("add")
     \/ /\ user # NoUser
        /\ nextId <= MaxTx
        /\ \/ Fails("add", "error", TRUE)
           \/ LET data == NewRow(nextId, user, input.type, input.category,
                                 amount, input.payment_type, NoId)
              IN /\ db_transactions' = db_transactions @@ (nextId :> data)
                 /\ nextId' = nextId + 1
                 /\ transactions' = <<data>> \o transactions
                 /\ result' = Result("add", NoError, data, FALSE)
                 /\ UNCHANGED <<user, db_transaction_history, settings>>

\* updateTransaction(id, updates)
UpdateTransaction(id, updates) ==
  /\ Call
  /\ \/ NotAuthenticated("update")
     \/ /\ user # NoUser
        /\ \/ Fails("update", "error", TRUE)
           \/ /\ SelectSingle(id, user) = NullRow
              /\ Fails("update", "PGRST116", FALSE)
           \/ /\ SelectSingle(id, user) # NullRow
              /\ LET data == Updated(SelectSingle(id, user), updates)
                 IN /\ db_transactions' = [db_transactions EXCEPT ![id] = data]
                    /\ transactions' =
                         ReplaceRow(transactions, id, data)
                    /\ result' = Result("update", NoError, data, FALSE)
                    /\ UNCHANGED <<user, db_transaction_history, nextId, settings>>

\* A soft delete that flips the flag and the status.
SoftDeletedToggle(row) ==
  [row EXCEPT !.is_deleted = ~row.is_deleted, !.deleted_at = "now",
              !.status = IF row.is_deleted THEN "active" ELSE "cancelled"]

\* The update of a soft delete.
SoftDeleted(row) ==
  [row EXCEPT !.is_deleted = TRUE, !.deleted_at = "now", !.status = "cancelled"]

\* deleteTransaction(id, softDelete = true): an update that matches no row is
\* no error.
DeleteTransaction(id) ==
  /\ Call
  /\ \/ NotAuthenticated("delete")
     \/ /\ user # NoUser
        /\ \/ Fails("delete", "error", TRUE)
           \/ /\ db_transactions' =
                   IF SelectSingle(id, user) # NullRow
                   THEN [db_transactions EXCEPT ![id] = SoftDeleted(@)]
                   ELSE db_transactions
              /\ transactions' = FilterOut(transactions, id)
              /\ result' = Result("delete", NoError, NullRow, FALSE)
              /\ UNCHANGED <<user, db_transaction_history, nextId, settings>>

\* The status refundTransaction gives the original.
NewStatus(refundAmount, originalAmount) ==
  IF refundAmount >= originalAmount THEN "refunded" ELSE "partial_refund"

\* The refund record refundTransaction inserts.
RefundRow(id, u, original, refundAmount) ==
  NewRow(id, u, "refund", original.category, refundAmount,
         original.payment_type, original.id)

\* The second write of refundTransaction.
RefundUpdate(row, newStatus, refundId) ==
  [row EXCEPT !.status = newStatus, !.original_transaction_id = refundId]

\* The in-memory list after a refund.
RefundList(prev, refund, originalTransactionId, newStatus) ==
  <<refund>> \o SetStatus(prev, originalTransactionId, newStatus)

\* refundTransaction(originalTransactionId, refundAmount, notes): the read of
\* the original and the insert throw their errors; the result of the status
\* update is not looked at.
RefundTransaction(originalTransactionId, refundAmount) ==
  /\ Call
  /\ \/ NotAuthenticated("refund")
     \/ /\ user # NoUser
        /\ \/ Fails("refund", "fetchError", FALSE)
           \/ /\ SelectSingle(originalTransactionId, user) = NullRow
              /\ Fails("refund", "PGRST116", FALSE)
           \/ /\ SelectSingle(originalTransactionId, user) # NullRow
              /\ nextId <= MaxTx
              /\ LET originalTransaction ==
                       SelectSingle(originalTransactionId, user)
                     refundTransaction ==
                       RefundRow(nextId, user, originalTransaction, refundAmount)
                     newStatus ==
                       NewStatus(refundAmount, originalTransaction.amount)
                     inserted == db_transactions @@ (nextId :> refundTransaction)
                 IN \/ Fails("refund", "refundError", TRUE)
                    \/ /\ \E updateOk \in BOOLEAN :
                            /\ db_transactions' =
                                 IF updateOk
                                 THEN [inserted EXCEPT ![originalTransactionId] =
                                         RefundUpdate(@, newStatus,
                                                      refundTransaction.id)]
                                 ELSE inserted
                            /\ result' = Result("refund", NoError,
                                                refundTransaction, ~updateOk)
                       /\ nextId' = nextId + 1
                       /\ transactions' =
                            RefundList(transactions, refundTransaction,
                                       originalTransactionId, newStatus)
                       /\ UNCHANGED <<user, db_transaction_history, settings>>

\* A reduction that lets the whole amount be taken off.
ReductionRejectedOnlyAbove(originalAmount, reductionAmount) ==
  originalAmount < reductionAmount

\* The precondition of a reduction.
ReductionRejected(originalAmount, reductionAmount) ==
  originalAmount <= reductionAmount

\* A reduction that adds.
NewAmountAdded(originalAmount, reductionAmount) ==
  originalAmount + reductionAmount

\* const newAmount = originalTransaction.amount - reductionAmount
NewAmount(originalAmount, reductionAmount) == originalAmount - reductionAmount

\* The row reduceInvestmentAmount writes.
Reduced(row, reductionAmount) ==
  [row EXCEPT !.amount = NewAmount(row.amount, reductionAmount),
              !.notes = Append(row.notes, reductionAmount)]

\* The history record reduceInvestmentAmount inserts.
HistoryRow(transactionId, u, oldAmount, newAmount) ==
  [ transaction_id |-> transactionId, user_id |-> u,
    action |-> "amount_reduced", old_amount |-> oldAmount,
    new_amount |-> newAmount, created_by |-> u ]

InvalidReduction ==
  "Reduction amount cannot be greater than or equal to original amount"

\* reduceInvestmentAmount(transactionId, reductionAmount, notes): the read and
\* the update throw their errors; the result of the history insert is not
\* looked at.
ReduceInvestmentAmount(transactionId, reductionAmount) ==
  /\ Call
  /\ \/ NotAuthenticated("reduce")
     \/ /\ user # NoUser
        /\ \/ Fails("reduce", "fetchError", FALSE)
           \/ /\ SelectSingle(transactionId, user) = NullRow
              /\ Fails("reduce", "PGRST116", FALSE)
           \/ /\ SelectSingle(transactionId, user) # NullRow
              /\ LET originalTransaction == SelectSingle(transactionId, user)
                     data == Reduced(originalTransaction, reductionAmount)
                 IN IF ReductionRejected(originalTransaction.amount,
                                         reductionAmount)
                    THEN Fails("reduce", InvalidReduction, FALSE)
                    ELSE \/ Fails("reduce", "error", TRUE)
                         \/ /\ db_transactions' =
                                 [db_transactions EXCEPT ![transactionId] = data]
                            /\ \E historyOk \in BOOLEAN :
                                 /\ db_transaction_history' =
                                      IF historyOk
                                      THEN Append(db_transaction_history,
                                             HistoryRow(transactionId, user,
                                                        originalTransaction.amount,
                                                        data.amount))
                                      ELSE db_transaction_history
                                 /\ result' = Result("reduce", NoError, data,
                                                     ~historyOk)
                            /\ transactions' =
                                 ReplaceRow(transactions, transactionId, data)
                            /\ UNCHANGED <<user, nextId, settings>>

\* ------------------------- reduceInvestmentAmount, one backend call a step
\* All but the call in slot c and what the steps of a call name.
ReduceFrame ==
  UNCHANGED <<user, nextId, fetching, settings>>

\* The call in slot c returns error e and has written nothing.
ReduceFails(c, call, e, writeFailed) ==
  /\ reducing' = [reducing EXCEPT ![c] = [call EXCEPT !.pc = "done",
                                                      !.error = e]]
  /\ result' = Result("reduce", e, NullRow, writeFailed)
  /\ UNCHANGED <<db_transactions, db_transaction_history, transactions>>

\* reduceInvestmentAmount(transactionId, reductionAmount) is called in slot c
\* and reads the original: the read's error and the rejected reduction end
\* the call.
ReduceRead(c, transactionId, reductionAmount) ==
  /\ Begin
  /\ ReduceFrame
  /\ user # NoUser
  /\ reducing[c].pc = "idle"
  /\ LET originalTransaction == SelectSingle(transactionId, user)
         called == ReduceCall("read", transactionId, reductionAmount,
                              originalTransaction, NullRow, NoError)
         rejected == ReductionRejected(originalTransaction.amount,
                                       reductionAmount)
     IN \/ /\ originalTransaction # NullRow
           /\ ~rejected
           /\ reducing' = [reducing EXCEPT ![c] = called]
           /\ UNCHANGED <<db_transactions, db_transaction_history,
                          transactions, result>>
        \/ /\ \E e \in {"fetchError", "PGRST116", InvalidReduction} :
                /\ e = "PGRST116" => originalTransaction = NullRow
                /\ e = InvalidReduction
                     => originalTransaction # NullRow /\ rejected
                /\ ReduceFails(c, called, e, FALSE)

\* The update of the call in slot c: the amount and the notes computed from
\* the row the call read are written to the row as it is now.
ReduceUpdate(c) ==
  /\ UNCHANGED ops
  /\ ReduceFrame
  /\ reducing[c].pc = "read"
  /\ LET call == reducing[c]
         data == Updated(db_transactions[call.transactionId],
                         [ amount |->
                             NewAmount(call.originalTransaction.amount,
                                       call.reductionAmount),
                           notes |->
                             Append(call.originalTransaction.notes,
                                    call.reductionAmount) ])
     IN \/ ReduceFails(c, call, "error", TRUE)
        \/ /\ db_transactions' =
                [db_transactions EXCEPT ![call.transactionId] = data]
           /\ reducing' = [reducing EXCEPT ![c].pc = "updated",
                                           ![c].data = data]
           /\ UNCHANGED <<db_transaction_history, transactions, result>>

\* The history insert of the call in slot c, whose result is not looked at,
\* setTransactions and the return.
ReduceLog(c) ==
  /\ UNCHANGED ops
  /\ ReduceFrame
  /\ reducing[c].pc = "updated"
  /\ LET call == reducing[c]
     IN /\ \E historyOk \in BOOLEAN :
             /\ db_transaction_history' =
                  IF historyOk
                  THEN Append(db_transaction_history,
                         HistoryRow(call.transactionId, user,
                                    call.originalTransaction.amount,
                                    call.data.amount))
                  ELSE db_transaction_history
             /\ result' = Result("reduce", NoError, call.data, ~historyOk)
        /\ transactions' =
             ReplaceRow(transactions, call.transactionId, call.data)
        /\ reducing' = [reducing EXCEPT ![c].pc = "done"]
        /\ UNCHANGED db_transactions

NextReduce ==
  \/ \E input \in AddInputs : AddTransaction(input, MaxAmount)
  \/ \E c \in Sessions, id \in Ids, r \in Amounts : ReduceRead(c, id, r)
  \/ \E c \in Sessions : ReduceUpdate(c)
  \/ \E c \in Sessions : ReduceLog(c)

\* Transactions of amount MaxAmount and calls of reduceInvestmentAmount on
\* them, interleaved.
SpecReduce == Init /\ [][NextReduce]_vars

\* ---------------------------------------- budget config and portfolios
\* The transactions, their history and the session are as they were.
LedgerUnchanged ==
  UNCHANGED <<user, db_transactions, db_transaction_history, nextId,
              transactions>>

\* saveBudgetConfig(config): the upsert names no conflict target and config
\* holds no id, so it inserts a row; the upsert of the profile or of the
\* config may fail.
SaveBudgetConfig(monthly_salary) ==
  /\ Call
  /\ \/ NotAuthenticated("saveConfig")
     \/ /\ user # NoUser
        /\ \/ Fails("saveConfig", "error", TRUE)
           \/ LET data == ConfigRow(Len(db_budget_configs) + 1, user,
                                    monthly_salary)
              IN /\ db_budget_configs' = Append(db_budget_configs, data)
                 /\ budgetConfig' = data
                 /\ result' = Result("saveConfig", NoError, NullRow, FALSE)
                 /\ LedgerUnchanged
                 /\ UNCHANGED <<db_investment_portfolios, portfolios>>

\* saveInvestmentPortfolio(portfolio)
SaveInvestmentPortfolio(allocation_value) ==
  /\ Call
  /\ \/ NotAuthenticated("savePortfolio")
     \/ /\ user # NoUser
        /\ \/ Fails("savePortfolio", "error", TRUE)
           \/ LET data == PortfolioRow(Len(db_investment_portfolios) + 1, user,
                                       allocation_value)
              IN /\ db_investment_portfolios' =
                      Append(db_investment_portfolios, data)
                 /\ portfolios' = Append(portfolios, data)
                 /\ result' = Result("savePortfolio", NoError, NullRow, FALSE)
                 /\ LedgerUnchanged
                 /\ UNCHANGED <<db_budget_configs, budgetConfig>>

\* updateInvestmentPortfolio(id, updates)
UpdateInvestmentPortfolio(id, updates) ==
  /\ Call
  /\ \/ NotAuthenticated("updatePortfolio")
     \/ /\ user # NoUser
        /\ \/ Fails("updatePortfolio", "error", TRUE)
           \/ /\ SelectPortfolio(id, user).id = NoId
              /\ Fails("updatePortfolio", "PGRST116", FALSE)
           \/ /\ SelectPortfolio(id, user).id # NoId
              /\ LET data == Updated(SelectPortfolio(id, user), updates)
                 IN /\ db_investment_portfolios' =
                         [db_investment_portfolios EXCEPT ![id] = data]
                    /\ portfolios' = ReplaceRow(portfolios, id, data)
                    /\ result' = Result("updatePortfolio", NoError, NullRow,
                                        FALSE)
                    /\ LedgerUnchanged
                    /\ UNCHANGED <<db_budget_configs, budgetConfig>>

\* The update of deleteInvestmentPortfolio.
Deactivated(row) == [row EXCEPT !.is_active = FALSE]

\* deleteInvestmentPortfolio(id): an update that matches no row is no error.
DeleteInvestmentPortfolio(id) ==
  /\ Call
  /\ \/ NotAuthenticated("deletePortfolio")
     \/ /\ user # NoUser
        /\ \/ Fails("deletePortfolio", "error", TRUE)
           \/ /\ db_investment_portfolios' =
                   IF SelectPortfolio(id, user).id # NoId
                   THEN [db_investment_portfolios EXCEPT
                           ![id] = Deactivated(@)]
                   ELSE db_investment_portfolios
              /\ portfolios' = FilterOut(portfolios, id)
              /\ result' = Result("deletePortfolio", NoError, NullRow, FALSE)
              /\ LedgerUnchanged
              /\ UNCHANGED <<db_budget_configs, budgetConfig>>

\* ------------------------------------- the profile-scoped hook (lib/)
\* The transaction query of the profile-scoped fetchBudgetData over a table:
\* the rows of user u that are not deleted, newest first.
FetchTransactionsProfile(table, u) ==
  LET ids == DescSeq({i \in DOMAIN table :
                        table[i].user_id = u /\ ~table[i].is_deleted})
  IN [k \in 1..Len(ids) |-> table[ids[k]]]

\* if (!user || !profileName || profileName === 'combined') return;
ReturnsUndefined(op) ==
  /\ user = NoUser
  /\ result' = Result(op, NoError, NullRow, FALSE)
  /\ UNCHANGED <<user, db_transactions, db_transaction_history, nextId,
                 transactions>>
  /\ UNCHANGED settings

\* The portfolio query of the profile-scoped fetchBudgetData: the active
\* rows of user u.
FetchPortfoliosProfile(u) ==
  SelectSeq(db_investment_portfolios, LAMBDA p : p.user_id = u /\ p.is_active)

\* fetchBudgetData of the profile-scoped hook for user u, the transactions
\* table being table: without a user the state is cleared; the first query
\* that fails throws, which is caught and leaves the rest of the state.
FetchedProfile(table, u) ==
  \E failAt \in {"none", "config", "portfolios", "transactions"} :
    /\ budgetConfig' =
         IF u = NoUser THEN NullConfig
         ELSE IF failAt = "config" THEN budgetConfig
         ELSE SelectConfig(u)
    /\ portfolios' =
         IF u = NoUser THEN <<>>
         ELSE IF failAt \in {"config", "portfolios"} THEN portfolios
         ELSE FetchPortfoliosProfile(u)
    /\ transactions' =
         IF u = NoUser THEN <<>>
         ELSE IF failAt = "none" THEN FetchTransactionsProfile(table, u)
         ELSE transactions

\* refetch: fetchBudgetData of the profile-scoped hook.
FetchBudgetDataProfile ==
  /\ Call
  /\ FetchedProfile(db_transactions, user)
  /\ result' = Result("fetch", NoError, NullRow, FALSE)
  /\ UNCHANGED <<user, db_transactions, db_transaction_history, nextId,
                 db_budget_configs, db_investment_portfolios>>

\* useEffect on [user, month, year, profileName]: fetchBudgetData.
AuthChangeProfile(u) ==
  /\ Call
  /\ u # user
  /\ user' = u
  /\ FetchedProfile(db_transactions, u)
  /\ result' = Result("auth", NoError, NullRow, FALSE)
  /\ UNCHANGED <<db_transactions, db_transaction_history, nextId,
                 db_budget_configs, db_investment_portfolios>>

AddTransactionProfile(input, amount) ==
  /\ Call
  /\ \/ ReturnsUndefined("add")
     \/ /\ user # NoUser
        /\ nextId <= MaxTx
        /\ \/ Fails("add", "thrown", TRUE)
           \/ LET data == NewRow(nextId, user, input.type, input.category,
                                 amount, input.payment_type, NoId)
              IN /\ db_transactions' = db_transactions @@ (nextId :> data)
                 /\ nextId' = nextId + 1
                 /\ transactions' = <<data>> \o transactions
                 /\ result' = Result("add", NoError, data, FALSE)
                 /\ UNCHANGED <<user, db_transaction_history, settings>>

\* The update of the profile-scoped soft delete.
SoftDeletedProfile(row) ==
  [row EXCEPT !.is_deleted = TRUE, !.deleted_at = "now"]

DeleteTransactionProfile(id) ==
  /\ Call
  /\ \/ ReturnsUndefined("delete")
     \/ /\ user # NoUser
        /\ \/ Fails("delete", "thrown", TRUE)
           \/ /\ db_transactions' =
                   IF SelectSingle(id, user) # NullRow
                   THEN [db_transactions EXCEPT ![id] = SoftDeletedProfile(@)]
                   ELSE db_transactions
              /\ transactions' = FilterOut(transactions, id)
              /\ result' = Result("delete", NoError, NullRow, FALSE)
              /\ UNCHANGED <<user, db_transaction_history, nextId, settings>>

\* transactions.find(t => t.id === originalTransactionId)?.amount, NoId - 1
\* standing for undefined.
FindAmount(list, id) ==
  IF \E k \in 1..Len(list) : list[k].id = id
  THEN list[CHOOSE k \in 1..Len(list) :
              list[k].id = id /\ \A j \in 1..(k - 1) : list[j].id # id].amount
  ELSE NoId - 1

\* The status the profile-scoped refundTransaction gives the original.
NewStatusProfile(refundAmount, list, id) ==
  IF refundAmount = FindAmount(list, id) THEN "refunded" ELSE "partial_refund"

\* The refund record the profile-scoped refundTransaction inserts.
RefundRowProfile(id, u, originalTransactionId, refundAmount) ==
  NewRow(id, u, "refund", "need", refundAmount, "null", originalTransactionId)

\* refundTransaction(originalTransactionId, refundAmount, reason) of the
\* profile-scoped hook: the original is not read; the insert is refused by
\* the foreign key of refund_for when the original is no row; both writes
\* throw their errors; fetchBudgetData follows.
RefundTransactionProfile(originalTransactionId, refundAmount) ==
  /\ Call
  /\ \/ ReturnsUndefined("refund")
     \/ /\ user # NoUser
        /\ \/ Fails("refund", "thrown", TRUE)
           \/ /\ originalTransactionId \in DOMAIN db_transactions
              /\ nextId <= MaxTx
              /\ LET refundTransaction ==
                       RefundRowProfile(nextId, user, originalTransactionId,
                                        refundAmount)
                     newStatus ==
                       NewStatusProfile(refundAmount, transactions,
                                        originalTransactionId)
                     inserted == db_transactions @@ (nextId :> refundTransaction)
                     updated ==
                       IF SelectSingle(originalTransactionId, user) # NullRow
                       THEN [inserted EXCEPT ![originalTransactionId] =
                               RefundUpdate(@, newStatus, refundTransaction.id)]
                       ELSE inserted
                 IN /\ nextId' = nextId + 1
                    /\ UNCHANGED <<user, db_transaction_history,
                                   db_budget_configs, db_investment_portfolios>>
                    /\ \/ /\ db_transactions' = inserted
                          /\ result' = Result("refund", "thrown", NullRow, TRUE)
                          /\ UNCHANGED <<transactions, budgetConfig,
                                         portfolios>>
                       \/ /\ db_transactions' = updated
                          /\ FetchedProfile(updated, user)
                          /\ result' = Result("refund", NoError,
                                              refundTransaction, FALSE)

\* upsert(budgetData, { onConflict: 'user_id,profile_name,budget_year,
\* budget_month' }) over a table: the row of the key takes the values, and
\* without one a row is inserted.
Upserted(table, u, monthly_salary) ==
  IF \E k \in 1..Len(table) : table[k].user_id = u
  THEN [k \in 1..Len(table) |->
          IF table[k].user_id = u
          THEN [table[k] EXCEPT !.monthly_salary = monthly_salary]
          ELSE table[k]]
  ELSE Append(table, ConfigRow(Len(table) + 1, u, monthly_salary))

\* saveBudgetConfig(config) of the profile-scoped hook
SaveBudgetConfigProfile(monthly_salary) ==
  /\ Call
  /\ \/ ReturnsUndefined("saveConfig")
     \/ /\ user # NoUser
        /\ \/ Fails("saveConfig", "thrown", TRUE)
           \/ /\ db_budget_configs' =
                   Upserted(db_budget_configs, user, monthly_salary)
              /\ budgetConfig' =
                   db_budget_configs'[CHOOSE k \in 1..Len(db_budget_configs') :
                                        db_budget_configs'[k].user_id = user]
              /\ result' = Result("saveConfig", NoError, NullRow, FALSE)
              /\ LedgerUnchanged
              /\ UNCHANGED <<db_investment_portfolios, portfolios>>

\* saveInvestmentPortfolio(portfolio) of the profile-scoped hook
SaveInvestmentPortfolioProfile(allocation_value) ==
  /\ Call
  /\ \/ ReturnsUndefined("savePortfolio")
     \/ /\ user # NoUser
        /\ \/ Fails("savePortfolio", "thrown", TRUE)
           \/ LET data == PortfolioRow(Len(db_investment_portfolios) + 1, user,
                                       allocation_value)
              IN /\ db_investment_portfolios' =
                      Append(db_investment_portfolios, data)
                 /\ portfolios' = Append(portfolios, data)
                 /\ result' = Result("savePortfolio", NoError, NullRow, FALSE)
                 /\ LedgerUnchanged
                 /\ UNCHANGED <<db_budget_configs, budgetConfig>>

\* deleteInvestmentPortfolio(id) of the profile-scoped hook
DeleteInvestmentPortfolioProfile(id) ==
  /\ Call
  /\ \/ ReturnsUndefined("deletePortfolio")
     \/ /\ user # NoUser
        /\ \/ Fails("deletePortfolio", "thrown", TRUE)
           \/ /\ db_investment_portfolios' =
                   IF SelectPortfolio(id, user).id # NoId
                   THEN [db_investment_portfolios EXCEPT
                           ![id] = Deactivated(@)]
                   ELSE db_investment_portfolios
              /\ portfolios' = FilterOut(portfolios, id)
              /\ result' = Result("deletePortfolio", NoError, NullRow, FALSE)
              /\ LedgerUnchanged
              /\ UNCHANGED <<db_budget_configs, budgetConfig>>

NextProfile ==
  \/ \E u \in Users \cup {NoUser} : AuthChangeProfile(u)
  \/ FetchBudgetDataProfile
  \/ \E input \in AddInputs, a \in Amounts : AddTransactionProfile(input, a)
  \/ \E id \in Ids : DeleteTransactionProfile(id)
  \/ \E id \in Ids, r \in Amounts : RefundTransactionProfile(id, r)
  \/ \E a \in Amounts : SaveBudgetConfigProfile(a)
  \/ \E a \in Amounts : SaveInvestmentPortfolioProfile(a)
  \/ \E id \in Ids : DeleteInvestmentPortfolioProfile(id)

\* The hook of lib/database.types.ts over the backend.
SpecProfile == Init /\ [][NextProfile]_vars

Next ==
  \/ \E u \in Users : SignIn(u)
  \/ SignOut
  \/ FetchBudgetData
  \/ \E input \in AddInputs, a \in Amounts : AddTransaction(input, a)
  \/ \E id \in Ids, updates \in TransactionUpdates :
       UpdateTransaction(id, updates)
  \/ \E id \in Ids : DeleteTransaction(id)
  \/ \E id \in Ids, r \in Amounts : RefundTransaction(id, r)
  \/ \E id \in Ids, r \in Amounts : ReduceInvestmentAmount(id, r)
  \/ \E a \in Amounts : SaveBudgetConfig(a)
  \/ \E a \in Amounts : SaveInvestmentPortfolio(a)
  \/ \E id \in Ids, a \in Amounts :
       UpdateInvestmentPortfolio(id, [allocation_value |-> a])
  \/ \E id \in Ids : DeleteInvestmentPortfolio(id)

\* The hook of hooks/useBudgetData.ts over the backend.
Spec == Init /\ [][Next]_vars

\* --------------------------------- fetchBudgetData, started and completed
\* fetchBudgetData is called and awaits its queries: the user it was created
\* with is the user it queries for.
FetchBegin ==
  /\ Begin
  /\ user # NoUser
  /\ fetching = NoUser
  /\ fetching' = user
  /\ UNCHANGED <<user, db_transactions, db_transaction_history, nextId,
                 transactions, result, reducing, settings>>

\* The queries of the fetchBudgetData in flight return and their data are
\* set.
FetchEnd ==
  /\ fetching # NoUser
  /\ Fetched(fetching)
  /\ fetching' = NoUser
  /\ result' = Result("fetch", NoError, NullRow, FALSE)
  /\ UNCHANGED <<user, db_transactions, db_transaction_history, nextId, ops,
                 reducing, db_budget_configs, db_investment_portfolios>>

NextSession ==
  \/ \E u \in Users : SignIn(u)
  \/ SignOut
  \/ \E input \in AddInputs, a \in Amounts : AddTransaction(input, a)
  \/ \E a \in Amounts : SaveInvestmentPortfolio(a)
  \/ FetchBegin
  \/ FetchEnd

\* Sign-in and sign-out next to a fetchBudgetData in flight.
SpecSession == Init /\ [][NextSession]_vars

\* The numbers a caller can pass as an amount: the type is number.
Numbers == (0 - MaxAmount)..MaxAmount

NextNumeric ==
  \/ \E input \in AddInputs, a \in Numbers : AddTransaction(input, a)
  \/ \E id \in Ids, a \in Numbers : UpdateTransaction(id, [amount |-> a])
  \/ \E id \in Ids, r \in Numbers : RefundTransaction(id, r)
  \/ \E id \in Ids, r \in Numbers : ReduceInvestmentAmount(id, r)

\* The operations of hooks/useBudgetData.ts that write an amount, called
\* with any number.
SpecNumeric == Init /\ [][NextNumeric]_vars

\* ================================================================ claims
\* The refund records of transaction id: the rows whose refund_for is id.
RefundsOf(id) ==
  {i \in DOMAIN db_transactions :
     db_transactions[i].type = "refund" /\ db_transactions[i].refund_for = id}

RECURSIVE SumAmounts(_)
\* The sum of the amounts of the rows with ids in S.
SumAmounts(S) ==
  IF S = {} THEN 0
  ELSE LET i == CHOOSE x \in S : TRUE
       IN db_transactions[i].amount + SumAmounts(S \ {i})

\* The last handler was op and returned no error.
Succeeded(op) == result.op = op /\ result.error = NoError

\* The original of the refund the last handler returned.
RefundedOriginal == db_transactions[result.data.refund_for]

\* C1: after a successful refundTransaction(T.id, r), T.status is 'refunded'
\* when r equals T.amount and 'partial_refund' when r is less.
C1_RefundSetsStatus ==
  Succeeded("refund") =>
    /\ result.data.amount = RefundedOriginal.amount
         => RefundedOriginal.status = "refunded"
    /\ result.data.amount < RefundedOriginal.amount
         => RefundedOriginal.status = "partial_refund"

\* C2: after a successful refundTransaction on T, the amounts of the refund
\* records of T add up to at most T.amount (a call that would exceed it
\* fails and creates no record).
C2_RefundsWithinAmount ==
  Succeeded("refund") =>
    SumAmounts(RefundsOf(result.data.refund_for)) <= RefundedOriginal.amount

\* C3: in every state, a 'refunded' transaction has refund records that add
\* up to its amount, and a 'partial_refund' one has refund records that add
\* up to less.
C3_StatusMatchesRefunds ==
  \A id \in DOMAIN db_transactions :
    /\ db_transactions[id].status = "refunded"
         => SumAmounts(RefundsOf(id)) = db_transactions[id].amount
    /\ db_transactions[id].status = "partial_refund"
         => SumAmounts(RefundsOf(id)) < db_transactions[id].amount

\* The backend tables and the in-memory list are as they were.
NothingWritten ==
  /\ db_transactions' = db_transactions
  /\ db_transaction_history' = db_transaction_history
  /\ transactions' = transactions
  /\ UNCHANGED settings

\* C4: refundTransaction on a transaction whose status is 'refunded' does not
\* succeed, creates no refund record and leaves the original as it was.
C4_NoRefundOfRefunded ==
  [][\A id \in Ids, r \in Amounts :
       ( /\ SelectSingle(id, user).status = "refunded"
         /\ RefundTransaction(id, r) )
       => /\ result'.error # NoError
          /\ db_transactions' = db_transactions]_vars

\* C5: in no state does a refund record of T exist while T.status is still
\* 'active'.
C5_NoRefundOfActive ==
  \A id \in DOMAIN db_transactions :
    RefundsOf(id) # {} => db_transactions[id].status # "active"

\* C6: when a backend write of refundTransaction or reduceInvestmentAmount
\* failed, the handler returns an error.
C6_NoSwallowedError ==
  (result.op \in {"refund", "reduce"} /\ result.writeFailed)
    => result.error # NoError

\* C7: reduceInvestmentAmount(T.id, r) with r >= T.amount fails, with the
\* invalid-argument error once T was read, and leaves the transactions table,
\* the history table and the in-memory list as they were.
C7_ReductionRejected ==
  [][\A id \in Ids, r \in Amounts :
       ( /\ SelectSingle(id, user) # NullRow
         /\ r >= SelectSingle(id, user).amount
         /\ ReduceInvestmentAmount(id, r) )
       => /\ result'.error \in {InvalidReduction, "fetchError"}
          /\ NothingWritten]_vars

\* A reduction was rejected for its amount.
C7_Witness == result.op = "reduce" /\ result.error = InvalidReduction

\* C8: a successful reduceInvestmentAmount(T.id, r) leaves T.amount - r as the
\* amount and adds exactly one history record, 'amount_reduced' from T.amount
\* to the new amount.
C8_ReductionLogged ==
  [][\A id \in Ids, r \in Amounts :
       (ReduceInvestmentAmount(id, r) /\ result'.error = NoError)
       => /\ db_transactions'[id].amount = db_transactions[id].amount - r
          /\ Len(db_transaction_history') = Len(db_transaction_history) + 1
          /\ LET h == db_transaction_history'[Len(db_transaction_history')]
             IN /\ h.transaction_id = id
                /\ h.action = "amount_reduced"
                /\ h.old_amount = db_transactions[id].amount
                /\ h.new_amount = db_transactions'[id].amount]_vars

\* C9: a successful refundTransaction(T.id, r) creates exactly one row, the
\* record it returns: type 'refund', amount r, refund_for T.id, status
\* 'active', category and payment type those of T.
C9_RefundRecord ==
  [][\A id \in Ids, r \in Amounts :
       ( /\ user # NoUser
         /\ RefundTransactionProfile(id, r)
         /\ result'.error = NoError )
       => /\ DOMAIN db_transactions' \ DOMAIN db_transactions = {result'.data.id}
          /\ db_transactions'[result'.data.id] = result'.data
          /\ result'.data.type = "refund"
          /\ result'.data.amount = r
          /\ result'.data.refund_for = id
          /\ result'.data.status = "active"
          /\ result'.data.category = db_transactions[id].category
          /\ result'.data.payment_type = db_transactions[id].payment_type]_vars

\* C10: after a successful refundTransaction on T, T.original_transaction_id
\* is the id of the record the call created, whose refund_for is T.id.
C10_CrossLink ==
  Succeeded("refund") =>
    /\ RefundedOriginal.original_transaction_id = result.data.id
    /\ db_transactions[result.data.id].refund_for = RefundedOriginal.id

\* The ids of the rows of a list.
ListIds(list) == {list[k].id : k \in 1..Len(list)}

\* C11: refundTransaction with an original id that is no row of the caller
\* (no row at all, or a row of another user) fails and writes nothing: no
\* refund record is inserted and no transaction is updated.
C11_RefundNotFound ==
  [][\A id \in Ids, r \in Amounts :
       ( /\ user # NoUser
         /\ SelectSingle(id, user) = NullRow
         /\ RefundTransactionProfile(id, r) )
       => /\ result'.error # NoError
          /\ db_transactions' = db_transactions]_vars

\* C12: a soft-deleted transaction stays a row of the transactions table, and
\* fetchBudgetData puts no soft-deleted transaction into the in-memory list.
C12_DeletedExcluded ==
  [][/\ DOMAIN db_transactions \subseteq DOMAIN db_transactions'
     /\ (FetchBudgetData \/ \E u \in Users : SignIn(u))
          => \A k \in 1..Len(transactions') : ~transactions'[k].is_deleted]_vars

\* C13: a successful soft delete of a transaction T of the caller sets
\* is_deleted, deleted_at and status 'cancelled' on T, keeps the other fields
\* of T and leaves every other transaction as it was.
C13_SoftDeleteFields ==
  [][\A id \in Ids :
       ( /\ user # NoUser
         /\ SelectSingle(id, user) # NullRow
         /\ DeleteTransactionProfile(id)
         /\ result'.error = NoError )
       => db_transactions' =
            [db_transactions EXCEPT
               ![id] = [@ EXCEPT !.is_deleted = TRUE, !.deleted_at = "now",
                                 !.status = "cancelled"]]]_vars

\* C14: deleteTransaction(T.id) on a T that a deleteTransaction has soft
\* deleted returns no error unless the backend call fails, and leaves T
\* deleted and 'cancelled', every row as it was, and T out of the in-memory
\* list.
C14_DeleteIdempotent ==
  [][\A id \in Ids :
       ( /\ SelectSingle(id, user) # NullRow
         /\ SelectSingle(id, user).is_deleted
         /\ SelectSingle(id, user).status = "cancelled"
         /\ DeleteTransaction(id)
         /\ ~result'.writeFailed )
       => /\ result'.error = NoError
          /\ db_transactions' = db_transactions
          /\ db_transactions'[id].is_deleted
          /\ db_transactions'[id].status = "cancelled"
          /\ id \notin ListIds(transactions')]_vars

\* A deleteTransaction has succeeded, for a user who owns a soft-deleted
\* transaction that is not in the in-memory list.
C14_Witness ==
  /\ Succeeded("delete")
  /\ \E id \in DOMAIN db_transactions :
       /\ SelectSingle(id, user) = SoftDeleted(NewRow(id, user,
             db_transactions[id].type, db_transactions[id].category,
             db_transactions[id].amount, db_transactions[id].payment_type,
             NoId))
       /\ id \notin ListIds(transactions)

\* Table before and table after a step of the signed-in user: the rows that
\* were there keep their owner, and the rows that are new or differ are the
\* user's.
OwnRowsOnly(before, after) ==
  /\ DOMAIN before \subseteq DOMAIN after
  /\ \A i \in DOMAIN before :
       /\ after[i].user_id = before[i].user_id
       /\ after[i] # before[i] => before[i].user_id = user
  /\ \A i \in DOMAIN after \ DOMAIN before : after[i].user_id = user

\* C15: a call creates and changes only rows of the calling user in the four
\* tables, changes the user_id of no row, and leaves only rows of the
\* signed-in user in the in-memory state.
C15_OwnRowsOnly ==
  [][/\ OwnRowsOnly(db_transactions, db_transactions')
     /\ OwnRowsOnly(db_transaction_history, db_transaction_history')
     /\ OwnRowsOnly(db_budget_configs, db_budget_configs')
     /\ OwnRowsOnly(db_investment_portfolios, db_investment_portfolios')
     /\ \A k \in 1..Len(transactions') : transactions'[k].user_id = user'
     /\ \A k \in 1..Len(portfolios') : portfolios'[k].user_id = user'
     /\ budgetConfig' # NullConfig => budgetConfig'.user_id = user']_vars

\* C16: in every state the amount of every stored transaction is at least 0,
\* whatever numbers addTransaction, updateTransaction, refundTransaction and
\* reduceInvestmentAmount are called with.
C16_NonNegativeAmounts ==
  \A id \in DOMAIN db_transactions : db_transactions[id].amount >= 0

\* C17: no step removes a portfolio row, a successful
\* deleteInvestmentPortfolio(P.id) leaves P with is_active = false, and
\* fetchBudgetData puts no inactive portfolio into the in-memory list.
C17_InactiveExcluded ==
  [][/\ Len(db_investment_portfolios) <= Len(db_investment_portfolios')
     /\ \A id \in Ids :
          ( /\ SelectPortfolio(id, user).id # NoId
            /\ DeleteInvestmentPortfolio(id)
            /\ result'.error = NoError )
          => ~db_investment_portfolios'[id].is_active
     /\ (FetchBudgetData \/ \E u \in Users : SignIn(u))
          => \A k \in 1..Len(portfolios') : portfolios'[k].is_active]_vars

\* The rows of the budget_configs table that are user u's.
ConfigsOf(table, u) == {k \in 1..Len(table) : table[k].user_id = u}

\* C18: the budget_configs table holds at most one row per user, and after a
\* successful saveBudgetConfig that row holds the values saved.
C18_OneConfigPerUser ==
  [][/\ \A u \in Users : Cardinality(ConfigsOf(db_budget_configs', u)) <= 1
     /\ \A a \in Amounts :
          (SaveBudgetConfig(a) /\ result'.error = NoError)
          => \A k \in ConfigsOf(db_budget_configs', user) :
               db_budget_configs'[k].monthly_salary = a]_vars

C20_RefundLogged ==
  [][\A id \in Ids, r \in Amounts :
       (RefundTransaction(id, r) /\ result'.error = NoError)
       => \E k \in (Len(db_transaction_history) + 1)
                      ..Len(db_transaction_history') :
            db_transaction_history'[k].transaction_id = id]_vars

\* The status changes the ledger allows.
AllowedTransitions ==
  { <<"active", "refunded">>, <<"active", "partial_refund">>,
    <<"partial_refund", "refunded">>, <<"active", "cancelled">>,
    <<"partial_refund", "cancelled">>, <<"refunded", "cancelled">> }

\* C21: refundTransaction and deleteTransaction change the status of a
\* transaction only along active -> refunded, active -> partial_refund,
\* partial_refund -> refunded and non-cancelled -> cancelled.
C21_StatusTransitions ==
  [][( \/ \E id \in Ids, r \in Amounts : RefundTransaction(id, r)
       \/ \E id \in Ids : DeleteTransaction(id) )
     => \A id \in DOMAIN db_transactions :
          \/ db_transactions'[id].status = db_transactions[id].status
          \/ <<db_transactions[id].status, db_transactions'[id].status>>
               \in AllowedTransitions]_vars

\* The history rows of transaction id.
HistoryOf(id) ==
  {k \in 1..Len(db_transaction_history) :
     db_transaction_history[k].transaction_id = id}

\* Calls c1 and c2 of reduceInvestmentAmount have returned without error,
\* having read the same row of the same transaction: each read it before the
\* other wrote.
BothReadFirst(c1, c2) ==
  /\ c1 # c2
  /\ reducing[c1].pc = "done" /\ reducing[c1].error = NoError
  /\ reducing[c2].pc = "done" /\ reducing[c2].error = NoError
  /\ reducing[c1].transactionId = reducing[c2].transactionId
  /\ reducing[c1].originalTransaction = reducing[c2].originalTransaction

\* C22: when two calls of reduceInvestmentAmount on T with reductions r1 and
\* r2 both read T.amount before either writes, the stored amount ends as
\* T.amount - r1 or T.amount - r2 and two history rows of T are written.
C22_LostUpdate ==
  \A c1, c2 \in Sessions :
    BothReadFirst(c1, c2) =>
      LET T == reducing[c1].originalTransaction
      IN /\ db_transactions[T.id].amount
              \in { T.amount - reducing[c1].reductionAmount,
                    T.amount - reducing[c2].reductionAmount }
         /\ Cardinality(HistoryOf(T.id)) = 2

\* C26: under interleaved calls of reduceInvestmentAmount with reductions
\* above 0 on transactions that start at MaxAmount, every stored amount is
\* above 0 and at most MaxAmount.
C26_AmountInBounds ==
  \A id \in DOMAIN db_transactions :
    /\ db_transactions[id].amount > 0
    /\ db_transactions[id].amount <= MaxAmount

\* Two calls that both read a transaction before either wrote have returned
\* without error.
C26_Witness == \E c1, c2 \in Sessions : BothReadFirst(c1, c2)

\* C25: whenever no user is signed in, the in-memory budget config is null
\* and the in-memory lists are empty, also when a fetchBudgetData started
\* before the sign-out completes after it.
C25_SignedOutIsEmpty ==
  user = NoUser =>
    /\ budgetConfig = NullConfig
    /\ portfolios = <<>>
    /\ transactions = <<>>

\* Every transaction of the in-memory list is field for field its stored row.
Mirrors(list, table) ==
  \A k \in 1..Len(list) :
    list[k].id \in DOMAIN table /\ list[k] = table[list[k].id]

\* C23: when the in-memory list mirrors the stored rows, it still does after
\* a successful addTransaction, updateTransaction, refundTransaction or
\* reduceInvestmentAmount.
C23_ListMirrorsRows ==
  [][( /\ Mirrors(transactions, db_transactions)
       /\ result'.op \in {"add", "update", "refund", "reduce"}
       /\ result'.error = NoError )
     => Mirrors(transactions', db_transactions')]_vars

\* The operations of the hook that write to the backend, but saveBudgetConfig.
MutatingOps ==
  { "savePortfolio", "updatePortfolio", "deletePortfolio", "add", "update",
    "delete", "refund", "reduce" }

\* C24: a mutating operation whose backend call returns an error returns a
\* result with that error and leaves the in-memory budget config, portfolios
\* and transactions as they were.
C24_ErrorLeavesState ==
  [][(result'.op \in MutatingOps /\ result'.error # NoError)
     => /\ result'.data = NullRow
        /\ UNCHANGED <<budgetConfig, portfolios, transactions>>]_vars

\* A backend call of a mutating operation has returned an error while the
\* in-memory lists hold rows.
C24_Witness ==
  /\ result.op \in MutatingOps
  /\ result.error \notin {NoError, "User not authenticated"}
  /\ transactions # <<>> \/ portfolios # <<>>

\* C27: for every stored transaction, refund amount and in-memory list, the
\* two refundTransaction implementations give the original the same status.
C27_SameStatus ==
  \A id \in DOMAIN db_transactions, r \in Amounts :
    NewStatus(r, db_transactions[id].amount)
      = NewStatusProfile(r, transactions, id)
====
